---- MODULE Spec2Model ----
(***************************************************************************)
(* A model of utils/mcutils.py (catalog resolver, classifiers, streaming   *)
(* sources) of amethyst-archives.                                          *)
(*                                                                         *)
(* Python strings that the code takes apart (queries, identifiers, slugs)  *)
(* are sequences of one-character strings; strings that are only compared  *)
(* or passed on (messages, release types, dict keys) are TLA+ strings.     *)
(* A JSON object is a function whose DOMAIN is the set of keys present, so *)
(* `'k' in data` is "k" \in DOMAIN data and data['k'] on an absent key is  *)
(* a KeyError.  Every operation yields a record whose field err names the  *)
(* exception that left it ("none" when it returned).                       *)
(***************************************************************************)
EXTENDS Integers, Sequences, FiniteSets, TLC

VARIABLES
    call,   \* resolver: the call under way [op, q, multi, env]
    res,    \* resolver: its outcome, NoResult before it ran
    obj,    \* streaming source: the object's attributes (DOMAIN = attributes set)
    procs,  \* streaming source: the decoder processes load has spawned
    out,    \* streaming source: outcome of the last method called on the source
    hist,   \* streaming source: history, what the calls so far have achieved
    waiting \* streaming source: the get_info calls suspended at their await

vars == <<call, res, obj, procs, out, hist, waiting>>

----------------------------------------------------------------------------
(* Characters and the str methods the code uses.                           *)

LowerCase == <<"a","b","c","d","e","f","g","h","i","j","k","l","m",
               "n","o","p","q","r","s","t","u","v","w","x","y","z">>
UpperCase == <<"A","B","C","D","E","F","G","H","I","J","K","L","M",
               "N","O","P","Q","R","S","T","U","V","W","X","Y","Z">>
Digit == {"0","1","2","3","4","5","6","7","8","9"}

upper_char(c) ==
    IF \E i \in DOMAIN LowerCase : LowerCase[i] = c
    THEN UpperCase[CHOOSE i \in DOMAIN LowerCase : LowerCase[i] = c]
    ELSE c

lower_char(c) ==
    IF \E i \in DOMAIN UpperCase : UpperCase[i] = c
    THEN LowerCase[CHOOSE i \in DOMAIN UpperCase : UpperCase[i] = c]
    ELSE c

\* str.upper() / str.lower()
upper(s) == [i \in DOMAIN s |-> upper_char(s[i])]
lower(s) == [i \in DOMAIN s |-> lower_char(s[i])]

StartsWith(s, p) == Len(p) <= Len(s) /\ SubSeq(s, 1, Len(p)) = p

\* str.replace(old, new): leftmost non-overlapping occurrences, old non-empty
RECURSIVE replace(_, _, _)
replace(s, old, new) ==
    IF s = <<>> THEN <<>>
    ELSE IF StartsWith(s, old)
         THEN new \o replace(SubSeq(s, Len(old) + 1, Len(s)), old, new)
         ELSE <<Head(s)>> \o replace(Tail(s), old, new)

\* the characters U+0020 to U+007E in order
Printable == <<
    " ", "!", "\"", "#", "$", "%", "&", "'", "(", ")", "*", "+", ",", "-", ".", "/",
    "0", "1", "2", "3", "4", "5", "6", "7", "8", "9", ":", ";", "<", "=", ">", "?",
    "@", "A", "B", "C", "D", "E", "F", "G", "H", "I", "J", "K", "L", "M", "N", "O",
    "P", "Q", "R", "S", "T", "U", "V", "W", "X", "Y", "Z", "[", "\\", "]", "^", "_",
    "U+0060", "a", "b", "c", "d", "e", "f", "g", "h", "i", "j", "k", "l", "m", "n", "o",
    "p", "q", "r", "s", "t", "u", "v", "w", "x", "y", "z", "{", "|", "}", "~" >>

HexUpper == <<"0","1","2","3","4","5","6","7","8","9","A","B","C","D","E","F">>

\* n in hexadecimal, at least width digits
RECURSIVE hex(_, _)
hex(n, width) ==
    IF n < 16 /\ width <= 1 THEN HexUpper[n + 1]
    ELSE hex(n \div 16, width - 1) \o HexUpper[(n % 16) + 1]

\* chr(cp): the character itself where a string of the model can hold it, its
\* name U+XXXX otherwise (control characters, the grave accent, non-ASCII)
chr(cp) ==
    IF cp = 9 THEN "\t"
    ELSE IF cp = 10 THEN "\n"
    ELSE IF cp = 12 THEN "\f"
    ELSE IF cp = 13 THEN "\r"
    ELSE IF 32 <= cp /\ cp <= 126 THEN Printable[cp - 31]
    ELSE "U+" \o hex(cp, 4)

AsciiChars == {chr(cp) : cp \in 0..127}
ord(c) == CHOOSE cp \in 0..127 : chr(cp) = c

\* the code point of a character of the model, whatever its plane
code_point(c) ==
    IF c \in AsciiChars THEN ord(c) ELSE CHOOSE cp \in 128..1114111 : chr(cp) = c

\* str.encode('utf-8') of one character, a Unicode scalar value
utf8_encode(cp) ==
    IF cp < 128 THEN <<cp>>
    ELSE IF cp < 2048 THEN <<192 + (cp \div 64), 128 + (cp % 64)>>
    ELSE IF cp < 65536
         THEN <<224 + (cp \div 4096), 128 + ((cp \div 64) % 64), 128 + (cp % 64)>>
    ELSE <<240 + (cp \div 262144), 128 + ((cp \div 4096) % 64),
           128 + ((cp \div 64) % 64), 128 + (cp % 64)>>

\* urllib.parse.quote with its default safe='/': the bytes of letters, digits
\* and _.-~/ stay, every other byte of the UTF-8 encoding becomes %XX
QuoteSafe ==
    {LowerCase[i] : i \in DOMAIN LowerCase} \cup
    {UpperCase[i] : i \in DOMAIN UpperCase} \cup Digit \cup {"_", ".", "-", "~", "/"}

quote_byte(b) ==
    IF b < 128 /\ chr(b) \in QuoteSafe THEN <<chr(b)>>
    ELSE <<"%", HexUpper[(b \div 16) + 1], HexUpper[(b % 16) + 1]>>

RECURSIVE quote_bytes(_)
quote_bytes(bs) ==
    IF bs = <<>> THEN <<>> ELSE quote_byte(Head(bs)) \o quote_bytes(Tail(bs))

quote_char(c) == quote_bytes(utf8_encode(code_point(c)))

RECURSIVE quote(_)
quote(s) == IF s = <<>> THEN <<>> ELSE quote_char(Head(s)) \o quote(Tail(s))

----------------------------------------------------------------------------
(* Module constants.                                                       *)

MULTI_TYPES == {"Album", "EP"}
LONG_TYPES == {"Mixes", "Podcast"}

\* A catalog pattern is a set of alternatives ^<prefix>\d{n}$; n = 0 is \d+
Alt(p, n) == [prefix |-> p, digits |-> n]

\* the dict CATALOG_REGEXES in insertion order: key, compiled pattern
CATALOG_REGEXES == <<
    [key |-> "Album",
     pat |-> {Alt(<<"M","C","U","V","-">>, 0), Alt(<<"M","C">>, 3)}],
    [key |-> "Best of Compilation", pat |-> {Alt(<<"M","C","B">>, 3)}],
    [key |-> "Special Compilation", pat |-> {Alt(<<"M","C","S">>, 3)}],
    [key |-> "5 Year Anniversary Track",
     pat |-> {Alt(<<"M","C","X","0","0","4","-">>, 1)}],
    [key |-> "Call of the Wild", pat |-> {Alt(<<"C","O","T","W">>, 3)}],
    [key |-> "Podcast", pat |-> {Alt(<<"M","C","P">>, 3)}],
    [key |-> "Rocket League Album", pat |-> {Alt(<<"M","C","R","L">>, 3)}],
    [key |-> "Long Play", pat |-> {Alt(<<"M","C","L","P">>, 3)}],
    [key |-> "Extended Play", pat |-> {Alt(<<"M","C","E","P">>, 3)}],
    [key |-> "Free Download", pat |-> {Alt(<<"M","C","F">>, 3)}],
    [key |-> "Single", pat |-> {Alt(<<"M","C","S">>, 3)}] >>

AllDigits(s) == \A i \in DOMAIN s : s[i] \in Digit

\* pattern.match(s) for the patterns above; $ also matches before a final newline
AltMatches(a, s) ==
    LET t == IF s # <<>> /\ s[Len(s)] = "\n" THEN SubSeq(s, 1, Len(s) - 1) ELSE s
        d == SubSeq(t, Len(a.prefix) + 1, Len(t))
    IN  /\ StartsWith(t, a.prefix)
        /\ AllDigits(d)
        /\ IF a.digits = 0 THEN Len(d) >= 1 ELSE Len(d) = a.digits

re_match(pat, s) == \E a \in pat : AltMatches(a, s)

----------------------------------------------------------------------------
(* Outcomes.  The code raises ValueError at every site of the spec's error *)
(* taxonomy; err names the site: ValidationError ('Nothing to search.',    *)
(* 'No id given.'), RemoteError ('Invalid response code'), NotFoundError   *)
(* ('Release not found.', 'No results ...', 'Artist not found.'),          *)
(* ServiceError (ValueError(data['message'])), WrongSourceTypeError (the   *)
(* type guard of MCSingleSource.set_connect_data).  UnpackError is the     *)
(* ValueError of a failed tuple unpacking; the other names are Python's.   *)

NoData == [None |-> TRUE]

Return(v, reqs) ==
    [err |-> "none", status |-> 0, msg |-> "", value |-> v, reqs |-> reqs]
Raise(e, reqs) ==
    [err |-> e, status |-> 0, msg |-> "", value |-> NoData, reqs |-> reqs]
RaiseStatus(e, st, reqs) ==
    [err |-> e, status |-> st, msg |-> "", value |-> NoData, reqs |-> reqs]
RaiseMsg(e, m, reqs) ==
    [err |-> e, status |-> 0, msg |-> m, value |-> NoData, reqs |-> reqs]

----------------------------------------------------------------------------
(* Catalog identifier classifier.                                          *)

\* `for x, y in d` over a dict: the iteration yields the KEYS, and each key
\* (a str) is unpacked into x, y.  A key of length other than 2 raises
\* ValueError; a key of length 2 binds y to a one-character str, on which
\* y.match / y.search raises AttributeError.  The first key decides.
iter_unpack(d) ==
    IF Len(d) = 0 THEN "none"
    ELSE IF Len(d[1].key) # 2 THEN "UnpackError"
    ELSE "AttributeError"

\* what iterating .items() would have computed: the keys whose pattern matches
RECURSIVE matching_keys(_, _)
matching_keys(d, s) ==
    IF d = <<>> THEN <<>>
    ELSE (IF re_match(Head(d).pat, s) THEN <<Head(d).key>> ELSE <<>>)
         \o matching_keys(Tail(d), s)

is_catalog_id_items(id) == Return(matching_keys(CATALOG_REGEXES, id) # <<>>, <<>>)

\* is_catalog_id: [x for x, y in CATALOG_REGEXES if y.match(id)] non-empty
is_catalog_id(id) ==
    LET e == iter_unpack(CATALOG_REGEXES)
    IN  IF e # "none" THEN Raise(e, <<>>) ELSE Return(FALSE, <<>>)

----------------------------------------------------------------------------
(* The catalog service as the resolver sees it: the i-th request of an     *)
(* operation is answered by env[i], a record [status, body]; status 0 is a *)
(* transport failure (session.get raises).                                 *)

Id_r1 == <<"r", "1">>
Id_r2 == <<"r", "2">>

Url(scheme, prefix, host, path) ==
    [scheme |-> scheme, prefix |-> prefix, host |-> host, path |-> path]

YouTubeUrl == Url("https://", "www.", "youtube.com", "/watch?v=x")
SpotifyUrl == Url("https://", "", "open.spotify.com", "/track/1")

Release(id, type, urls) ==
    [_id |-> id, type |-> type, title |-> "Title", renderedArtists |-> "Artist",
     catalogId |-> <<"M","C","S","0","0","1">>, urls |-> urls,
     releaseDate |-> "2017-01-02T03:04:05.000Z", coverUrl |-> <<"c","o","v","e","r"," ","u","r","l">>]

Track(hash, dur10) ==
    [title |-> "Title", artistsTitle |-> "Artist", bpm |-> 128, duration10 |-> dur10,
     genre |-> "House", genres |-> <<"House">>,
     albums |-> <<[streamHash |-> hash, albumId |-> Id_r1]>>]

Artist(vanity) ==
    [_id |-> <<"a", "1">>, name |-> "Artist", vanityUri |-> vanity, years |-> <<2017>>,
     urls |-> <<SpotifyUrl>>, profileImageUrl |-> "image url"]

NOT_FOUND_RELEASE == "The specified resource was not found."
NOT_FOUND_ARTIST == "Artist not found."

ErrorBody(m) == [error |-> "error", message |-> m]
Results(l) == [results |-> l, total |-> Len(l)]

Resp(st, b) == [status |-> st, body |-> b]

ReleaseSingle == Release(Id_r1, "Single", <<SpotifyUrl>>)
ReleaseAlbum == Release(Id_r2, "Album", <<SpotifyUrl>>)
TheTrack == Track("h1", 1955)
TheArtist == Artist(<<"a", "-", "b">>)
OtherArtist == Artist(<<"c">>)

Responses == {
    Resp(200, ReleaseSingle),
    Resp(200, ReleaseAlbum),
    Resp(200, TheArtist),
    Resp(200, ErrorBody(NOT_FOUND_RELEASE)),
    Resp(200, ErrorBody(NOT_FOUND_ARTIST)),
    Resp(200, ErrorBody("Internal error")),
    Resp(200, [error |-> "error"]),
    Resp(200, Results(<<>>)),
    Resp(200, Results(<<ReleaseSingle, ReleaseAlbum>>)),
    Resp(200, Results(<<TheArtist, OtherArtist>>)),
    Resp(200, Results(<<TheTrack>>)),
    Resp(404, ErrorBody(NOT_FOUND_RELEASE)),
    Resp(404, ErrorBody(NOT_FOUND_ARTIST)),
    Resp(500, [reason |-> "server error"]),
    Resp(0, NoData) }

\* the requests the resolver builds: BASE_URI + path + arg + tail, or a search
Get(path, arg, tail) ==
    [path |-> path, arg |-> arg, tail |-> tail, fields |-> <<>>, limit |-> 0]

\* gen_search: '?fuzzyOr=' + ','.join(f'{x},{search}' for x in fields), then &limit=
gen_search(path, search, fields, limit) ==
    [path |-> path, arg |-> search, tail |-> "?fuzzyOr=", fields |-> fields,
     limit |-> limit]

Ok2xx(st) == 200 <= st /\ st < 300

\* a coroutine of the getter suspended on the request last in reqs: at
\* `async with self.session.get(url) as r` (phase "get"), or at
\* `await r.json()` (phase "json") once the status st has come in; stage names
\* the request and data is the record resolved so far
Suspend(stage, phase, st, data, reqs) ==
    [err |-> "await", status |-> st, msg |-> "",
     value |-> [stage |-> stage, phase |-> phase, data |-> data], reqs |-> reqs]

\* the answer's status has come in and is 2xx: the body is awaited next
reads_body(phase, r) == phase = "get" /\ Ok2xx(r.status)

\* async with self.session.get(url) as r: data = await r.json() if 2xx else raise
fetch(r, reqs) ==
    IF r.status = 0 THEN Raise("ClientError", reqs)
    ELSE IF Ok2xx(r.status) THEN Return(r.body, reqs)
    ELSE RaiseStatus("RemoteError", r.status, reqs)

----------------------------------------------------------------------------
(* ConnectGetter.  Queries are strs, so the `type(search) != str` branch   *)
(* (TypeError) is not drawn.  value is [data, list] for the operations     *)
(* that return a pair and [data] or [list] for the others.                 *)

\* the track-list fetch that ends both branches of get_release
release_tracks(data, r, reqs) ==
    IF "_id" \notin DOMAIN data THEN Raise("KeyError", reqs)
    ELSE LET url == Get("/catalog/release/", data._id, "/tracks")
             f == fetch(r, Append(reqs, url))
         IN  IF f.err # "none" THEN f
             ELSE IF "results" \notin DOMAIN f.value THEN Raise("KeyError", f.reqs)
             ELSE Return([data |-> data, list |-> f.value.results], f.reqs)

\* get_release, the branch taken when is_catalog_id(search.upper()) is true
get_release_by_catalog_id(search, env) ==
    LET url == Get("/catalog/release/", upper(search), "")
        f == fetch(env[1], <<url>>)
        data == f.value
    IN  IF f.err # "none" THEN f
        ELSE IF "error" \in DOMAIN data /\ "message" \notin DOMAIN data
             THEN Raise("KeyError", f.reqs)
        ELSE IF "error" \in DOMAIN data /\ data.message # NOT_FOUND_RELEASE
             THEN RaiseMsg("ServiceError", data.message, f.reqs)
        ELSE IF "error" \in DOMAIN data THEN Raise("NotFoundError", f.reqs)
        ELSE release_tracks(data, env[2], f.reqs)

\* get_release, the branch taken otherwise: fuzzy search, top result
get_release_by_search(search, env) ==
    LET song == quote(lower(search))
        url == gen_search("/catalog/release", song,
                          <<"title", "renderedArtists", "catalogId">>, 10)
        f == fetch(env[1], <<url>>)
        data == f.value
    IN  IF f.err # "none" THEN f
        ELSE IF "results" \notin DOMAIN data THEN Raise("KeyError", f.reqs)
        ELSE IF data.results = <<>> THEN Raise("NotFoundError", f.reqs)
        ELSE release_tracks(data.results[1], env[2], f.reqs)

get_release(search, env) ==
    IF search = <<>> THEN Raise("ValidationError", <<>>)
    ELSE LET c == is_catalog_id(upper(search))
         IN  IF c.err # "none" THEN c
             ELSE IF c.value THEN get_release_by_catalog_id(search, env)
             ELSE get_release_by_search(search, env)

\* release_from_id until it raises or is suspended on its request
release_from_id_begin(id) ==
    IF id = <<>> THEN Raise("ValidationError", <<>>)
    ELSE Suspend("release", "get", 0, NoData, <<Get("/catalog/release/", id, "")>>)

\* release_from_id resumed with the answer r to its request
release_from_id_resume(phase, r, reqs) ==
    IF reads_body(phase, r) THEN Suspend("release", "json", r.status, NoData, reqs)
    ELSE LET f == fetch(r, reqs)
         IN  IF f.err # "none" THEN f
             ELSE Return([data |-> f.value], f.reqs)

\* get_track: the request is built, then `self.sesion` (sic) raises
\* AttributeError before it is issued
get_track(search, env) ==
    IF search = <<>> THEN Raise("ValidationError", <<>>)
    ELSE Raise("AttributeError", <<>>)

\* get_monstercat_track: `self.sesion` (sic) again, whatever multi is
get_monstercat_track(search, multi, env) ==
    IF search = <<>> THEN Raise("ValidationError", <<>>)
    ELSE Raise("AttributeError", <<>>)

\* get_artist, from the record of the artist on: the releases request is sent
artist_releases_request(data, reqs) ==
    IF "vanityUri" \notin DOMAIN data THEN Raise("KeyError", reqs)
    ELSE Suspend("releases", "get", 0, data,
                 Append(reqs, Get("/catalog/artist/", data.vanityUri, "/releases")))

\* artist_releases, were a failed releases fetch to yield the artist alone
artist_releases_partial(data, phase, r, reqs) ==
    IF reads_body(phase, r) THEN Suspend("releases", "json", r.status, data, reqs)
    ELSE LET f == fetch(r, reqs)
         IN  IF f.err # "none" THEN Return([data |-> data, list |-> <<>>], f.reqs)
             ELSE IF "results" \notin DOMAIN f.value THEN Raise("KeyError", f.reqs)
             ELSE Return([data |-> data, list |-> f.value.results], f.reqs)

\* the releases fetch that ends get_artist, resumed with the answer r
artist_releases(data, phase, r, reqs) ==
    IF reads_body(phase, r) THEN Suspend("releases", "json", r.status, data, reqs)
    ELSE LET f == fetch(r, reqs)
         IN  IF f.err # "none" THEN f
             ELSE IF "results" \notin DOMAIN f.value THEN Raise("KeyError", f.reqs)
             ELSE Return([data |-> data, list |-> f.value.results], f.reqs)

\* get_artist, the fallback taken when the direct lookup said 'Artist not
\* found.': the search request is sent
artist_search_request(search, reqs) ==
    Suspend("search", "get", 0, NoData,
            Append(reqs, gen_search("/catalog/artist", quote(search),
                                    <<"name", "vanityUri">>, 10)))

\* the fallback search resumed with the answer r: the top result is the artist
artist_search(phase, r, reqs) ==
    IF reads_body(phase, r) THEN Suspend("search", "json", r.status, NoData, reqs)
    ELSE LET f == fetch(r, reqs)
         IN  IF f.err # "none" THEN f
             ELSE IF "results" \notin DOMAIN f.value THEN Raise("KeyError", f.reqs)
             ELSE IF f.value.results = <<>> THEN Raise("NotFoundError", f.reqs)
             ELSE artist_releases_request(f.value.results[1], f.reqs)

\* the empty-query guard of get_artist reads `elif not str`: it tests the type
\* str, which is truthy, so it never raises
artist_guard(search) == FALSE

artist_slug(search) == quote(replace(replace(lower(search), <<" ", "&", " ">>, <<"-">>),
                                     <<" ">>, <<"-">>))

\* get_artist until it raises or is suspended on the direct lookup
get_artist_begin(search) ==
    IF artist_guard(search) THEN Raise("ValidationError", <<>>)
    ELSE Suspend("direct", "get", 0, NoData,
                 <<Get("/catalog/artist/", artist_slug(search), "")>>)

\* the direct lookup resumed with the answer r
artist_direct(search, phase, r, reqs) ==
    IF reads_body(phase, r) THEN Suspend("direct", "json", r.status, NoData, reqs)
    ELSE LET f == fetch(r, reqs)
         IN  IF f.err # "none" THEN f
             ELSE IF "error" \in DOMAIN f.value /\ "message" \notin DOMAIN f.value
                  THEN Raise("KeyError", f.reqs)
             ELSE IF "error" \in DOMAIN f.value /\ f.value.message # NOT_FOUND_ARTIST
                  THEN RaiseMsg("ServiceError", f.value.message, f.reqs)
             ELSE IF "error" \in DOMAIN f.value
                  THEN artist_search_request(search, f.reqs)
             ELSE artist_releases_request(f.value, f.reqs)

\* get_artist resumed, where it was suspended, with the answer r
get_artist_resume(search, stage, phase, data, r, reqs) ==
    IF stage = "direct" THEN artist_direct(search, phase, r, reqs)
    ELSE IF stage = "search" THEN artist_search(phase, r, reqs)
    ELSE artist_releases(data, phase, r, reqs)

----------------------------------------------------------------------------
(* One getter and the calls made of it.  A call that reaches a request is  *)
(* suspended there and kept in `waiting` until the answer comes; other     *)
(* calls begin and resume in between.  call and res are the call that      *)
(* ended last and its outcome; call.env holds the answers it was given.    *)
(* get_release, get_track and get_monstercat_track raise before their      *)
(* first request: their env is what the service stood ready to answer.     *)

Queries == {
    <<>>,
    <<"M","C","0","2","5">>,
    <<"m","c","e","p","0","1","4">>,
    <<"M","C","S","0","0","1">>,
    <<"n","o","t","-","a","n","-","i","d">>,
    <<"A"," ","&"," ","B">>,
    <<"a"," ","b">>,
    <<"T","i","t","l","e">> }

Call(op, q, multi, env) == [op |-> op, q |-> q, multi |-> multi, env |-> env]

\* the queries of the calls that reach their requests
IdQueries == {<<>>, Id_r1}
ArtistQueries == {<<>>, <<"A"," ","&"," ","B">>, <<"a"," ","b">>}
TrackQueries == {<<>>, <<"a"," ","b">>}

\* what the service stands ready to answer to the track-list request
TrackListAnswers == {Resp(200, Results(<<TheTrack>>)), Resp(500, [reason |-> "server error"])}

MaxCalls == 2

NoCall == Call("none", <<>>, FALSE, <<>>)
NoResult == Raise("pending", <<>>)
NoObject == [class |-> "none"]
NoOutcome ==
    [op |-> "none", err |-> "none", status |-> 0, msg |-> "", reqs |-> <<>>,
     lookups |-> <<>>, env |-> <<>>, yt |-> [raised |-> FALSE, data |-> NoData],
     info_ok_before |-> FALSE, before |-> [op |-> "none", err |-> "none"]]
NoHistory == [prefetched |-> FALSE, info_ok |-> FALSE, loaded |-> FALSE, started |-> 0]

Pending(op) == call.op = op /\ res = NoResult

\* the coroutine of call c suspended as b says
Flight(c, b) ==
    [call |-> c, stage |-> b.value.stage, phase |-> b.value.phase,
     status |-> b.status, data |-> b.value.data, reqs |-> b.reqs]

\* the getter takes another call
CanBegin == hist.started < MaxCalls

\* call c begins and runs to b: its outcome, or its first suspension
Begins(c, b) ==
    /\ hist' = [hist EXCEPT !.started = @ + 1]
    /\ IF b.err = "await"
       THEN /\ waiting' = Append(waiting, Flight(c, b))
            /\ UNCHANGED <<call, res>>
       ELSE /\ call' = c
            /\ res' = b
            /\ UNCHANGED waiting
    /\ UNCHANGED <<obj, procs, out>>

\* the answers that can come to the suspended coroutine w: any status at
\* session.get, a body under the status already in at r.json()
AnswersTo(w) == {r \in Responses : w.phase = "json" => r.status = w.status}

\* the coroutine waiting[i] is resumed with answer r and runs to s; the answer
\* joins the call's env once the request is through with it
Resumes(i, r, s) ==
    LET w == waiting[i]
        c == IF reads_body(w.phase, r) THEN w.call
             ELSE [w.call EXCEPT !.env = Append(@, r)]
    IN  /\ IF s.err = "await"
           THEN /\ waiting' = [waiting EXCEPT ![i] = Flight(c, s)]
                /\ UNCHANGED <<call, res>>
           ELSE /\ call' = c
                /\ res' = s
                /\ waiting' = SubSeq(waiting, 1, i - 1)
                                 \o SubSeq(waiting, i + 1, Len(waiting))
        /\ UNCHANGED <<obj, procs, out, hist>>

GetRelease ==
    /\ CanBegin
    /\ \E q \in Queries, r1 \in Responses, r2 \in TrackListAnswers :
          Begins(Call("get_release", q, FALSE, <<r1, r2>>), get_release(q, <<r1, r2>>))

ReleaseFromId ==
    /\ CanBegin
    /\ \E q \in IdQueries :
          Begins(Call("release_from_id", q, FALSE, <<>>), release_from_id_begin(q))

ReleaseFromIdAnswer ==
    /\ waiting # <<>>
    /\ \E i \in DOMAIN waiting :
          /\ waiting[i].call.op = "release_from_id"
          /\ \E r \in AnswersTo(waiting[i]) :
                Resumes(i, r, release_from_id_resume(waiting[i].phase, r,
                                                     waiting[i].reqs))

GetTrack ==
    /\ CanBegin
    /\ \E q \in TrackQueries, r1 \in Responses :
          Begins(Call("get_track", q, FALSE, <<r1>>), get_track(q, <<r1>>))

GetMonstercatTrack ==
    /\ CanBegin
    /\ \E q \in TrackQueries, m \in BOOLEAN, r1 \in Responses :
          Begins(Call("get_monstercat_track", q, m, <<r1>>),
                 get_monstercat_track(q, m, <<r1>>))

GetArtist ==
    /\ CanBegin
    /\ \E q \in ArtistQueries :
          Begins(Call("get_artist", q, FALSE, <<>>), get_artist_begin(q))

GetArtistAnswer ==
    /\ waiting # <<>>
    /\ \E i \in DOMAIN waiting :
          /\ waiting[i].call.op = "get_artist"
          /\ \E r \in AnswersTo(waiting[i]) :
                Resumes(i, r, get_artist_resume(waiting[i].call.q, waiting[i].stage,
                                                waiting[i].phase, waiting[i].data, r,
                                                waiting[i].reqs))

InitResolver ==
    /\ call = NoCall
    /\ res = NoResult
    /\ obj = NoObject
    /\ procs = <<>>
    /\ out = NoOutcome
    /\ hist = NoHistory
    /\ waiting = <<>>

NextResolver ==
    \/ GetRelease
    \/ ReleaseFromId
    \/ ReleaseFromIdAnswer
    \/ GetTrack
    \/ GetMonstercatTrack
    \/ GetArtist
    \/ GetArtistAnswer

SpecResolver == InitResolver /\ [][NextResolver]_vars

----------------------------------------------------------------------------
(* Duration codec: gen_duration and parse_duration.                        *)

DigitChars == <<"0","1","2","3","4","5","6","7","8","9">>
digit_char(n) == DigitChars[n + 1]
digit_value(c) == CHOOSE n \in 0..9 : DigitChars[n + 1] = c

\* str(n) for n >= 0
RECURSIVE decimal(_)
decimal(n) ==
    IF n < 10 THEN <<digit_char(n)>>
    ELSE decimal(n \div 10) \o <<digit_char(n % 10)>>

\* the format spec {n:02}: zero-padded to a width of at least two
format_02(n) == IF n < 10 THEN <<"0">> \o decimal(n) ELSE decimal(n)

\* gen_duration, were it to leave the hours out of the text
gen_duration_no_hours(seconds) ==
    LET minutes == (seconds \div 60) % 60
    IN  format_02(minutes) \o <<":">> \o format_02(seconds % 60)

\* gen_duration for an int (the float branch rounds first)
gen_duration(seconds) ==
    LET hours == (seconds \div 60) \div 60
        minutes == (seconds \div 60) % 60
    IN  IF hours # 0
        THEN format_02(hours) \o <<":">> \o format_02(minutes) \o <<":">>
             \o format_02(seconds % 60)
        ELSE format_02(minutes) \o <<":">> \o format_02(seconds % 60)

TwoDigits(s, i) == s[i] \in Digit /\ s[i + 1] \in Digit

\* the text is DD:DD or DD:DD:DD, nothing before or after
TimeForm(t) ==
    \/ Len(t) = 5 /\ TwoDigits(t, 1) /\ t[3] = ":" /\ TwoDigits(t, 4)
    \/ /\ Len(t) = 8
       /\ TwoDigits(t, 1) /\ t[3] = ":" /\ TwoDigits(t, 4) /\ t[6] = ":"
       /\ TwoDigits(t, 7)

\* DURATION_REGEX.match(dur), ^(?:\d{2}:)?\d{2}:\d{2}$ : without re.MULTILINE
\* `$` matches at the end and also just before a newline that ends the string
duration_regex_match(dur) ==
    \/ TimeForm(dur)
    \/ dur # <<>> /\ dur[Len(dur)] = "\n" /\ TimeForm(SubSeq(dur, 1, Len(dur) - 1))

\* dur.split(':')
RECURSIVE split(_, _)
split(s, sep) ==
    IF \E i \in DOMAIN s : s[i] = sep
    THEN LET i == CHOOSE k \in DOMAIN s : s[k] = sep /\ \A j \in 1..(k - 1) : s[j] # sep
         IN  <<SubSeq(s, 1, i - 1)>> \o split(SubSeq(s, i + 1, Len(s)), sep)
    ELSE <<s>>

Whitespace == {" ", "\t", "\n", "\r", "\f"}

RECURSIVE strip(_)
strip(s) ==
    IF s # <<>> /\ Head(s) \in Whitespace THEN strip(Tail(s))
    ELSE IF s # <<>> /\ s[Len(s)] \in Whitespace THEN strip(SubSeq(s, 1, Len(s) - 1))
    ELSE s

RECURSIVE digits_value(_)
digits_value(s) ==
    IF s = <<>> THEN 0
    ELSE 10 * digits_value(SubSeq(s, 1, Len(s) - 1)) + digit_value(s[Len(s)])

\* int(part) for a part of digits: surrounding whitespace is ignored
int_of(part) == digits_value(strip(part))

\* parse_duration; "FormatError" stands for its ValueError('Time passed does not
\* match required format ...')
parse_duration(dur) ==
    IF ~duration_regex_match(dur) THEN Raise("FormatError", <<>>)
    ELSE LET parts == split(dur, ":")
         IN  IF Len(parts) = 3
             THEN Return(int_of(parts[1]) * 60 * 60 + int_of(parts[2]) * 60
                         + int_of(parts[3]), <<>>)
             ELSE Return(int_of(parts[1]) * 60 + int_of(parts[2]), <<>>)

----------------------------------------------------------------------------
(* Social/source url classifier.  A url is [scheme, prefix, host, path]; a  *)
(* platform pattern ^(?:https?://)?(?:<prefix>)?<host> is a set of          *)
(* alternatives [prefixes, host], "" being the absent optional prefix.      *)
(* A prf.hn url carries camref, pubref and destination on top.              *)

UAlt(prefixes, host) == [prefixes |-> prefixes, host |-> host]
OptWww == {"", "www."}

\* the dict URL_REGEXES in insertion order; in the YouTube pattern the dot of
\* `m.` is unescaped, "m?" stands for m followed by another character
URL_REGEXES == <<
    [key |-> "Facebook", pat |-> {UAlt(OptWww, "facebook.com")}],
    [key |-> "SoundCloud", pat |-> {UAlt(OptWww, "soundcloud.com")}],
    [key |-> "Instagram", pat |-> {UAlt(OptWww, "instagram.com")}],
    [key |-> "YouTube", pat |-> {UAlt({"", "www.", "m.", "m?"}, "youtube.com"),
                                 UAlt({""}, "youtu.be")}],
    [key |-> "Twitter", pat |-> {UAlt(OptWww, "twitter.com")}],
    [key |-> "Spotify", pat |-> {UAlt({""}, "open.spotify.com")}],
    [key |-> "Beatport", pat |-> {UAlt(OptWww, "beatport.com")}],
    [key |-> "iTunes", pat |-> {UAlt({""}, "itunes.apple.com")}],
    [key |-> "Mixcloud", pat |-> {UAlt(OptWww, "mixcloud.com")}],
    [key |-> "Bandcamp", pat |-> {UAlt({""}, "music.monstercat.com")}],
    [key |-> "Google Play", pat |-> {UAlt({""}, "play.google.com")}] >>

OptScheme == {"", "http://", "https://"}

\* pattern.search(url) for the platform patterns
url_search(pat, u) ==
    /\ u.scheme \in OptScheme
    /\ \E a \in pat : u.prefix \in a.prefixes /\ u.host = a.host

\* what iterating .items() would have computed: the platforms whose pattern matches
RECURSIVE matching_platforms(_, _)
matching_platforms(d, u) ==
    IF d = <<>> THEN <<>>
    ELSE (IF url_search(Head(d).pat, u) THEN <<Head(d).key>> ELSE <<>>)
         \o matching_platforms(Tail(d), u)

\* a prf.hn link: prf.hn/click/camref:<camref>/pubref:<pubref>/destination:<dest>
PrfUrl(scheme, camref, pubref, dest) ==
    [scheme |-> scheme, prefix |-> "", host |-> "prf.hn", path |-> "/click",
     camref |-> camref, pubref |-> pubref, dest |-> dest]

\* [\da-z]+
LowerAlnum(t) ==
    t # <<>> /\ \A i \in DOMAIN t :
                   t[i] \in Digit \/ \E k \in DOMAIN LowerCase : LowerCase[k] = t[i]

\* PERFORMANCE_HORIZON_REGEX.search(url); `.*$` stops at a newline
performance_horizon_search(u) ==
    /\ "dest" \in DOMAIN u
    /\ u.scheme \in OptScheme
    /\ u.prefix = ""
    /\ LowerAlnum(u.camref)
    /\ LowerAlnum(u.pubref)
    /\ \A i \in 1..(Len(u.dest) - 1) : u.dest[i] # "\n"

\* PERFORMANCE_HORIZON_DEST_REGEX.search(url).group(1), `destination:(.*)$`:
\* the destination, without the newline it may end in
performance_horizon_dest(u) ==
    IF u.dest # <<>> /\ u.dest[Len(u.dest)] = "\n"
    THEN SubSeq(u.dest, 1, Len(u.dest) - 1)
    ELSE u.dest

IsHexDigit(c) == \E k \in DOMAIN HexUpper : HexUpper[k] = upper_char(c)
hex_value(c) == (CHOOSE k \in DOMAIN HexUpper : HexUpper[k] = upper_char(c)) - 1

\* urllib.parse.unquote_to_bytes on a run of ASCII characters: '%' and two
\* hexadecimal digits become the byte, anything else its own byte
RECURSIVE unquote_to_bytes(_)
unquote_to_bytes(t) ==
    IF t = <<>> THEN <<>>
    ELSE IF Head(t) = "%" /\ Len(t) >= 3 /\ IsHexDigit(t[2]) /\ IsHexDigit(t[3])
         THEN <<16 * hex_value(t[2]) + hex_value(t[3])>>
              \o unquote_to_bytes(SubSeq(t, 4, Len(t)))
    ELSE <<ord(Head(t))>> \o unquote_to_bytes(Tail(t))

\* UTF-8: the number of continuation bytes a lead byte asks for, -1 when the
\* byte cannot start a character
utf8_need(b) ==
    IF 194 <= b /\ b <= 223 THEN 1
    ELSE IF 224 <= b /\ b <= 239 THEN 2
    ELSE IF 240 <= b /\ b <= 244 THEN 3
    ELSE -1

\* the values the byte after lead byte b may take
utf8_second(b) ==
    IF b = 224 THEN 160..191
    ELSE IF b = 237 THEN 128..159
    ELSE IF b = 240 THEN 144..191
    ELSE IF b = 244 THEN 128..143
    ELSE 128..191

\* how many of the continuation bytes of the character starting bs are there
\* and valid, counting from the k-th byte on
RECURSIVE utf8_have(_, _)
utf8_have(bs, k) ==
    IF k > utf8_need(bs[1]) + 1 \/ k > Len(bs) THEN 0
    ELSE IF bs[k] \in (IF k = 2 THEN utf8_second(bs[1]) ELSE 128..191)
         THEN 1 + utf8_have(bs, k + 1)
    ELSE 0

utf8_code_point(bs, n) ==
    IF n = 1 THEN (bs[1] - 192) * 64 + (bs[2] - 128)
    ELSE IF n = 2 THEN (bs[1] - 224) * 4096 + (bs[2] - 128) * 64 + (bs[3] - 128)
    ELSE (bs[1] - 240) * 262144 + (bs[2] - 128) * 4096 + (bs[3] - 128) * 64
         + (bs[4] - 128)

\* bytes.decode('utf-8', 'replace'): a byte that starts no character, or a
\* character cut short, becomes U+FFFD
RECURSIVE utf8_decode(_)
utf8_decode(bs) ==
    IF bs = <<>> THEN <<>>
    ELSE IF bs[1] < 128 THEN <<chr(bs[1])>> \o utf8_decode(Tail(bs))
    ELSE IF utf8_need(bs[1]) = -1 THEN <<chr(65533)>> \o utf8_decode(Tail(bs))
    ELSE IF utf8_have(bs, 2) = utf8_need(bs[1])
         THEN <<chr(utf8_code_point(bs, utf8_need(bs[1])))>>
              \o utf8_decode(SubSeq(bs, utf8_need(bs[1]) + 2, Len(bs)))
    ELSE <<chr(65533)>> \o utf8_decode(SubSeq(bs, utf8_have(bs, 2) + 2, Len(bs)))

\* the length of the run of ASCII characters t starts with
RECURSIVE ascii_run(_)
ascii_run(t) ==
    IF t = <<>> \/ Head(t) \notin AsciiChars THEN 0 ELSE 1 + ascii_run(Tail(t))

\* urllib.parse.unquote: each run of ASCII characters is unquoted to bytes and
\* the bytes are decoded as UTF-8; other characters stay
RECURSIVE unquote(_)
unquote(t) ==
    IF t = <<>> THEN <<>>
    ELSE IF ascii_run(t) = 0 THEN <<Head(t)>> \o unquote(Tail(t))
    ELSE utf8_decode(unquote_to_bytes(SubSeq(t, 1, ascii_run(t))))
         \o unquote(SubSeq(t, ascii_run(t) + 1, Len(t)))

\* get_name: name = [x for x, y in URL_REGEXES if y.search(url)] comes first
get_name(url) ==
    LET e == iter_unpack(URL_REGEXES)
        name == matching_platforms(URL_REGEXES, url)
    IN  IF e # "none" THEN Raise(e, <<>>)
        ELSE IF name # <<>> THEN Return(name[1], <<>>)
        ELSE IF performance_horizon_search(url)
             THEN Return(unquote(performance_horizon_dest(url)), <<>>)
        ELSE Return(url, <<>>)

\* get_type_from_catalog_id: type = [x for x, y in CATALOG_REGEXES if y.match(id)]
get_type_from_catalog_id(id) ==
    LET e == iter_unpack(CATALOG_REGEXES)
        type == matching_keys(CATALOG_REGEXES, id)
    IN  IF e # "none" THEN Raise(e, <<>>)
        ELSE IF type # <<>> THEN Return(type[1], <<>>)
        ELSE Return("None", <<>>)

----------------------------------------------------------------------------
(* Tracklist segmenter: TRACKLIST_REGEX.findall on a description given as   *)
(* its lines.  Under (?sm) the label `.*?` ends at the first `$`, the end   *)
(* of the line; a line counts when it starts with DD:DD:DD or DD:DD and a   *)
(* whitespace character (the hours group is tried first).  The whitespace   *)
(* character may be the newline that ends the line, when more lines follow. *)

\* ^\d{2}:\d{2}:\d{2}\s at the start of a line
ThreeStampStart(line, more) ==
    \/ Len(line) >= 9 /\ TimeForm(SubSeq(line, 1, 8)) /\ line[9] \in Whitespace
    \/ Len(line) = 8 /\ TimeForm(line) /\ more

\* the length of the stamp a line starts with, 0 when it starts with none
line_stamp_len(line, more) ==
    IF ThreeStampStart(line, more) THEN 8
    ELSE IF Len(line) >= 6 /\ TimeForm(SubSeq(line, 1, 5)) /\ line[6] \in Whitespace
         THEN 5
    ELSE IF Len(line) = 5 /\ TimeForm(line) /\ more THEN 5
    ELSE 0

RECURSIVE tracklist_findall(_)
tracklist_findall(lines) ==
    IF lines = <<>> THEN <<>>
    ELSE LET line == Head(lines)
             rest == Tail(lines)
             n == line_stamp_len(line, rest # <<>>)
         IN  IF n = 0 THEN tracklist_findall(rest)
             ELSE IF Len(line) > n
                  THEN <<[stamp |-> SubSeq(line, 1, n),
                          label |-> SubSeq(line, n + 2, Len(line))]>>
                       \o tracklist_findall(rest)
             ELSE IF ThreeStampStart(Head(rest), Tail(rest) # <<>>)
                  THEN <<[stamp |-> line, label |-> <<>>]>> \o tracklist_findall(rest)
             ELSE <<[stamp |-> line, label |-> Head(rest)]>>
                  \o tracklist_findall(Tail(rest))

----------------------------------------------------------------------------
(* Streaming sources.  An object is the function of its attributes: hasattr *)
(* is membership in DOMAIN, reading an unset attribute is AttributeError.   *)
(* Methods yield [err, status, msg, obj, reqs, lookups]: the object as the  *)
(* call left it, the catalog requests and the media lookups it issued.      *)

With(o, k, v) == (k :> v) @@ o
Without(o, k) == [a \in DOMAIN o \ {k} |-> o[a]]

Done_(o, reqs, lookups) ==
    [err |-> "none", status |-> 0, msg |-> "", obj |-> o, reqs |-> reqs,
     lookups |-> lookups]
Fail_(e, o, reqs, lookups) ==
    [err |-> e, status |-> 0, msg |-> "", obj |-> o, reqs |-> reqs, lookups |-> lookups]
\* an exception of a resolver call passing through the method unchanged
Propagate(r, o) ==
    [err |-> r.err, status |-> r.status, msg |-> r.msg, obj |-> o, reqs |-> r.reqs,
     lookups |-> <<>>]

\* round() of a float given in tenths: to nearest, ties to even
round10(x) ==
    LET q == x \div 10
        r == x % 10
    IN  IF r < 5 THEN q
        ELSE IF r > 5 THEN q + 1
        ELSE IF q % 2 = 0 THEN q ELSE q + 1

\* the suffix '?image_width=256' of a thumbnail address
ImageWidth == <<"?","i","m","a","g","e","_","w","i","d","t","h","=","2","5","6">>

\* track.get('genre') or track['genres'][0]: a missing or empty genre falls
\* back on the first of genres
track_genre(track) ==
    IF "genre" \in DOMAIN track /\ track.genre # ""
    THEN [err |-> "none", value |-> track.genre]
    ELSE IF "genres" \notin DOMAIN track THEN [err |-> "KeyError", value |-> ""]
    ELSE IF track.genres = <<>> THEN [err |-> "IndexError", value |-> ""]
    ELSE [err |-> "none", value |-> track.genres[1]]

\* MCSingleSource.set_connect_data, the assignments from stream_url to duration
single_connect_fields(o, data, track) ==
    [a \in DOMAIN o \cup {"stream_url", "release_date", "title", "artists",
                          "thumb", "bpm", "duration"} |->
        CASE a = "stream_url" -> [blob |-> track.albums[1].streamHash]
          [] a = "release_date" -> data.releaseDate
          [] a = "title" -> data.title
          [] a = "artists" -> data.renderedArtists
          [] a = "thumb" ->
               replace(data.coverUrl, <<" ">>, <<"%", "2", "0">>) \o ImageWidth
          [] a = "bpm" -> track.bpm
          [] a = "duration" -> round10(track.duration10)
          [] OTHER -> o[a]]

\* MCSingleSource.set_connect_data: the attributes are assigned in order, so
\* an error at the genre leaves the seven before it set and the flag unset
single_set_connect_data(o, data, tracks) ==
    IF data.type \in MULTI_TYPES THEN Fail_("WrongSourceTypeError", o, <<>>, <<>>)
    ELSE IF data.type \in LONG_TYPES THEN Fail_("WrongSourceTypeError", o, <<>>, <<>>)
    ELSE IF tracks = <<>> THEN Fail_("IndexError", o, <<>>, <<>>)
    ELSE IF "albums" \notin DOMAIN tracks[1] THEN Fail_("KeyError", o, <<>>, <<>>)
    ELSE IF tracks[1].albums = <<>> THEN Fail_("IndexError", o, <<>>, <<>>)
    ELSE IF track_genre(tracks[1]).err # "none"
         THEN Fail_(track_genre(tracks[1]).err,
                    single_connect_fields(o, data, tracks[1]), <<>>, <<>>)
    ELSE Done_(With(With(single_connect_fields(o, data, tracks[1]),
                         "genre", track_genre(tracks[1]).value),
                    "_has_connect_data", TRUE),
               <<>>, <<>>)

\* MCSource.__init__ and MCSingleSource.__init__; tracks = <<>> stands for None
\* and for the empty list, which `if data and tracks` treats alike
single_init(track, data, tracks) ==
    LET o == [class |-> "single", track |-> track, _has_connect_data |-> FALSE,
              type |-> "single", _data |-> data]
    IN  IF data # NoData /\ tracks # <<>>
        THEN single_set_connect_data(o, data, tracks)
        ELSE Done_(o, <<>>, <<>>)

\* the pattern get_info searches the release's urls for:
\* ^(?:https?://)?(?:www\.)?youtube\.com
is_youtube_link(u) ==
    /\ u.scheme \in {"", "http://", "https://"}
    /\ u.prefix \in {"", "www."}
    /\ u.host = "youtube.com"

youtube_links(urls) == SelectSeq(urls, is_youtube_link)

\* the media lookup, up to its await: the query "<artists> - <title>" is built
\* from the source's attributes and handed to the executor
media_query(o) ==
    IF "artists" \notin DOMAIN o \/ "title" \notin DOMAIN o
    THEN Fail_("AttributeError", o, <<>>, <<>>)
    ELSE Done_(o, <<>>, <<[artists |-> o.artists, title |-> o.title]>>)

\* the media lookup, from its await on; yt is the library's answer: it raised,
\* or it returned yt.data
media_answer(o, q, yt) ==
    IF yt.raised THEN Fail_("DownloadError", o, <<>>, q)
    ELSE IF "entries" \in DOMAIN yt.data /\ yt.data.entries = <<>>
         THEN Fail_("IndexError", o, <<>>, q)
    ELSE LET data == IF "entries" \in DOMAIN yt.data
                     THEN yt.data.entries[1] ELSE yt.data
         IN  [err |-> "none", status |-> 0, msg |-> "", obj |-> o,
              reqs |-> <<>>, lookups |-> q, data |-> data]

\* the media lookup with nothing running in between: ytdl's
\* extract_info("<artists> - <title>") on the executor
media_lookup(o, yt) ==
    LET m == media_query(o)
    IN  IF m.err # "none" THEN m ELSE media_answer(o, m.lookups, yt)

\* not an outcome: the coroutine is suspended at
\* `await self.loop.run_in_executor(self.executor, func)`
Await_(o, reqs, lookups) ==
    [err |-> "await", status |-> 0, msg |-> "", obj |-> o, reqs |-> reqs,
     lookups |-> lookups]

\* get_info would look the media up again, if it did not test hasattr(self, 'url')
single_needs_media_always(o) == TRUE

\* `if not hasattr(self, 'url')`
single_needs_media(o) == "url" \notin DOMAIN o

\* MCSingleSource.get_info, the block under `if not hasattr(self, 'url')`, up to
\* its await
single_media_begin(o) ==
    IF "_data" \notin DOMAIN o THEN Fail_("AttributeError", o, <<>>, <<>>)
    ELSE IF o._data # NoData /\ youtube_links(o._data.urls) # <<>>
    THEN Done_(Without(With(o, "url", youtube_links(o._data.urls)[1]), "_data"),
               <<>>, <<>>)
    ELSE LET m == media_query(o)
         IN  IF m.err # "none" THEN m ELSE Await_(o, <<>>, m.lookups)

\* the same block from its await on, on the object as it is by then
single_media_resume(o, q, yt) ==
    LET m == media_answer(o, q, yt)
    IN  IF m.err # "none" THEN m
        ELSE IF "webpage_url" \notin DOMAIN m.data THEN Fail_("KeyError", o, <<>>, q)
        ELSE Done_(With(o, "url", m.data.webpage_url), <<>>, q)

\* what a block suspended at the await (b) comes to when it is answered at once
single_media_end(b, yt) ==
    IF b.err = "await" THEN single_media_resume(b.obj, b.lookups, yt) ELSE b

\* the block with nothing running in between
single_resolve_media(o, yt) == single_media_end(single_media_begin(o), yt)

\* MCSingleSource.get_info, the block under `if not self._has_connect_data`
single_resolve_catalog(o, env) ==
    LET r == get_release(o.track, env)
    IN  IF r.err # "none" THEN Propagate(r, o)
        ELSE LET o1 == With(o, "_data", r.value.data)
                 c == single_set_connect_data(o1, r.value.data, r.value.list)
             IN  [c EXCEPT !.reqs = r.reqs]

\* MCSingleSource.get_info after its catalog block (c), until it returns,
\* raises or suspends
single_after_catalog(c) ==
    IF c.err # "none" THEN c
    ELSE IF single_needs_media(c.obj)
         THEN [single_media_begin(c.obj) EXCEPT !.reqs = c.reqs]
         ELSE c

\* MCSingleSource.get_info until it returns, raises or suspends
single_get_info_begin(o, env) ==
    single_after_catalog(IF ~o._has_connect_data THEN single_resolve_catalog(o, env)
                         ELSE Done_(o, <<>>, <<>>))

\* MCSingleSource.get_info from its await on; w is the suspended call
single_get_info_resume(o, w, yt) ==
    [single_media_resume(o, w.lookups, yt) EXCEPT !.reqs = w.reqs]

\* what a call suspended at the await (b) comes to when it is answered at once
single_get_info_end(b, yt) ==
    IF b.err = "await" THEN single_get_info_resume(b.obj, b, yt) ELSE b

\* MCSingleSource.get_info awaited with nothing running in between
single_get_info(o, env, yt) == single_get_info_end(single_get_info_begin(o, env), yt)

\* MCSource.__init__ and MCLongSource.__init__
long_init(track) ==
    Done_([class |-> "long", track |-> track, _has_connect_data |-> FALSE,
           type |-> "long", _data |-> NoData, _has_yt_data |-> FALSE], <<>>, <<>>)

\* MCLongSource.set_connect_data: no type guard, and no `artists`
long_set_connect_data(o, data, track) ==
    IF track.albums = <<>> THEN Fail_("IndexError", o, <<>>, <<>>)
    ELSE Done_([a \in DOMAIN o \cup {"stream_url", "release_date", "title", "thumb",
                                     "duration", "catalog_id"} |->
                  CASE a = "stream_url" -> [blob |-> track.albums[1].streamHash]
                    [] a = "release_date" -> data.releaseDate
                    [] a = "title" -> track.title
                    [] a = "thumb" -> data.coverUrl \o ImageWidth
                    [] a = "duration" -> round10(track.duration10)
                    [] a = "catalog_id" -> data.catalogId
                    [] a = "_has_connect_data" -> TRUE
                    [] OTHER -> o[a]],
               <<>>, <<>>)

\* MCLongSource.set_yt_data: url and tracks = {} are set, then the loop header
\* `for stamp, name in tracks.values()` asks a list for .values
long_set_yt_data(o, data) ==
    IF "description" \notin DOMAIN data THEN Fail_("KeyError", o, <<>>, <<>>)
    ELSE LET found == tracklist_findall(data.description)
             tracks == [i \in DOMAIN found |->
                          [stamp |-> parse_duration(found[i].stamp),
                           name |-> found[i].label]]
         IN  IF \E i \in DOMAIN tracks : tracks[i].stamp.err # "none"
             THEN Fail_("FormatError", o, <<>>, <<>>)
             ELSE IF "webpage_url" \notin DOMAIN data
                  THEN Fail_("KeyError", o, <<>>, <<>>)
             ELSE Fail_("AttributeError",
                        With(With(o, "url", data.webpage_url), "tracks", <<>>),
                        <<>>, <<>>)

\* MCLongSource.get_info: the catalog block calls getter.get_moonstercat_track
\* (sic), a method ConnectGetter does not have
long_get_info(o, env, yt) ==
    IF ~o._has_connect_data THEN Fail_("AttributeError", o, <<>>, <<>>)
    ELSE IF ~o._has_yt_data
         THEN LET m == media_lookup(o, yt)
              IN  IF m.err # "none" THEN m
                  ELSE [long_set_yt_data(o, m.data) EXCEPT !.lookups = m.lookups]
         ELSE Done_(o, <<>>, <<>>)

\* load of either class: self.source = discord.FFmpegPCMAudio(self.stream_url);
\* spawned tells whether the library could start its process
load(o, ps, spawned) ==
    IF "stream_url" \notin DOMAIN o THEN [err |-> "AttributeError", obj |-> o, procs |-> ps]
    ELSE IF ~spawned THEN [err |-> "ClientException", obj |-> o, procs |-> ps]
    ELSE [err |-> "none", obj |-> With(o, "source", Len(ps) + 1),
          procs |-> Append(ps, [cleaned |-> FALSE])]

\* read of either class: self.source.read()
read(o, ps) ==
    IF "source" \notin DOMAIN o THEN [err |-> "AttributeError", obj |-> o, procs |-> ps]
    ELSE [err |-> "none", obj |-> o, procs |-> ps]

\* cleanup of either class: self.source.cleanup().  The handle stays bound and
\* every call is passed on to it; what discord.FFmpegPCMAudio.cleanup does with
\* the call is the library's: raised tells whether it raised
cleanup(o, ps, raised) ==
    IF "source" \notin DOMAIN o THEN [err |-> "AttributeError", obj |-> o, procs |-> ps]
    ELSE [err |-> IF raised THEN "Exception" ELSE "none", obj |-> o,
          procs |-> [ps EXCEPT ![o.source] = [cleaned |-> TRUE]]]

----------------------------------------------------------------------------
(* One streaming source driven by its single owner.                        *)

MaxLoads == 2
MaxWaiting == 2

ReleaseSingleYT == Release(Id_r1, "Single", <<SpotifyUrl, YouTubeUrl>>)
ReleaseMix == Release(Id_r2, "Mixes", <<SpotifyUrl>>)
ShortYouTubeUrl == Url("https://", "", "youtu.be", "/x")
MobileYouTubeUrl == Url("https://", "m.", "youtube.com", "/watch?v=x")
ReleaseSingleShort == Release(Id_r1, "Single", <<SpotifyUrl, ShortYouTubeUrl>>)
ReleaseSingleMobile == Release(Id_r1, "Single", <<MobileYouTubeUrl>>)

SourceTracks == {<<>>, <<"M","C","0","2","5">>, <<"a"," ","b">>}
GivenData == {NoData, ReleaseSingle, ReleaseSingleYT, ReleaseSingleShort,
              ReleaseSingleMobile, ReleaseAlbum, ReleaseMix}
TrackNoAlbum == [TheTrack EXCEPT !.albums = <<>>]
\* tracks whose genre is empty: the first of genres stands in, when there is one
TrackGenres == [TheTrack EXCEPT !.genre = ""]
TrackNoGenre == [TheTrack EXCEPT !.genre = "", !.genres = <<>>]
GivenTracks == {<<>>, <<TheTrack>>, <<TrackNoAlbum>>, <<TrackGenres>>, <<TrackNoGenre>>}

TracksAnswer == Resp(200, Results(<<TheTrack>>))
InfoEnvs == {
    <<Resp(200, ReleaseSingle), TracksAnswer>>,
    <<Resp(200, ReleaseAlbum), TracksAnswer>>,
    <<Resp(200, Results(<<ReleaseSingle, ReleaseAlbum>>)), TracksAnswer>>,
    <<Resp(404, ErrorBody(NOT_FOUND_RELEASE)), Resp(0, NoData)>> }

\* descriptions, as their lines
DescPlain == << <<"n", "o", "t", "e", "s">>,
       <<"n", "o", " ", "l", "i", "s", "t">> >>
DescTracklist ==
    << <<"0", "0", ":", "0", "0", " ", "I", "n", "t", "r", "o">>,
       <<"0", "3", ":", "1", "5", " ", "T", "r", "a", "c", "k", " ", "A">>,
       <<"0", "7", ":", "4", "0", " ", "T", "r", "a", "c", "k", " ", "B">> >>
DescMixed ==
    << <<"0", "1", ":", "0", "2", ":", "0", "3", " ", "a">>,
       <<"0", "3", ":", "1", "5">>,
       <<"b", " ", "0", "4", ":", "0", "0">>,
       <<"0", "4", ":", "1", "0", "	", "c">> >>
\* a line that is only a stamp, before a line that starts with three fields
DescStamps ==
    << <<"0", "3", ":", "1", "5">>,
       <<"0", "1", ":", "0", "2", ":", "0", "3">>,
       <<"f", "o", "o">> >>
Video == [webpage_url |-> YouTubeUrl, description |-> DescPlain]
YtVideos == {
    Video,
    [webpage_url |-> YouTubeUrl, description |-> DescTracklist],
    [webpage_url |-> YouTubeUrl, description |-> DescMixed],
    [webpage_url |-> YouTubeUrl, description |-> DescStamps],
    [webpage_url |-> YouTubeUrl],
    [description |-> DescTracklist] }
\* the answers of the catalog to a long source: the track search, the release
LongInfoEnvs == {
    <<TracksAnswer, Resp(200, ReleaseMix)>>,
    <<Resp(404, ErrorBody(NOT_FOUND_RELEASE)), Resp(0, NoData)>> }
YtAnswers == {
    [raised |-> TRUE, data |-> NoData],
    [raised |-> FALSE, data |-> Video],
    [raised |-> FALSE, data |-> [entries |-> <<Video>>]],
    [raised |-> FALSE, data |-> [entries |-> <<>>]] }

Outcome(op, r, env, yt) ==
    [op |-> op, err |-> r.err, status |-> r.status, msg |-> r.msg, reqs |-> r.reqs,
     lookups |-> r.lookups, env |-> env, yt |-> yt, info_ok_before |-> hist.info_ok,
     before |-> [op |-> out.op, err |-> out.err]]

HandleOutcome(op, r) ==
    [op |-> op, err |-> r.err, status |-> 0, msg |-> "", reqs |-> <<>>,
     lookups |-> <<>>, env |-> <<>>, yt |-> NoOutcome.yt,
     info_ok_before |-> hist.info_ok,
     before |-> [op |-> out.op, err |-> out.err]]

\* MCSingleSource(track, data, tracks): no object comes to exist when it raises
NewSingle ==
    /\ obj = NoObject
    /\ \E track \in SourceTracks, data \in GivenData, tracks \in GivenTracks :
          LET r == single_init(track, data, tracks)
          IN  /\ obj' = IF r.err = "none" THEN r.obj ELSE NoObject
              /\ out' = Outcome("__init__", r, <<>>, NoOutcome.yt)
              /\ hist' = [hist EXCEPT
                            !.prefetched = r.err = "none" /\ r.obj._has_connect_data]
    /\ UNCHANGED <<call, res, procs, waiting>>

NewLong ==
    /\ obj = NoObject
    /\ \E track \in SourceTracks :
          LET r == long_init(track)
          IN  /\ obj' = r.obj
              /\ out' = Outcome("__init__", r, <<>>, NoOutcome.yt)
    /\ UNCHANGED <<call, res, procs, hist, waiting>>

\* MCSingleSource.set_connect_data called with a release and its tracks
SingleSetConnectData ==
    /\ obj.class = "single"
    /\ \E data \in GivenData \ {NoData}, tracks \in GivenTracks :
          LET r == single_set_connect_data(obj, data, tracks)
          IN  /\ obj' = r.obj
              /\ out' = Outcome("set_connect_data", r, <<>>, NoOutcome.yt)
    /\ UNCHANGED <<call, res, procs, hist, waiting>>

\* a call of MCSingleSource.get_info: it returns or raises at once, or it hands
\* its lookup to the executor and is suspended there; env is what the catalog
\* answers, nothing when the source has its catalog data and does not ask
SingleGetInfo ==
    /\ obj.class = "single"
    /\ \E env \in IF obj._has_connect_data THEN {<<>>} ELSE InfoEnvs :
          LET r == single_get_info_begin(obj, env)
          IN  /\ obj' = r.obj
              /\ IF r.err = "await"
                 THEN /\ Len(waiting) < MaxWaiting
                      /\ waiting' = Append(waiting,
                                           [env |-> env, reqs |-> r.reqs,
                                            lookups |-> r.lookups,
                                            info_ok_before |-> hist.info_ok])
                      /\ UNCHANGED <<out, hist>>
                 ELSE /\ out' = Outcome("get_info", r, env, NoOutcome.yt)
                      /\ hist' = [hist EXCEPT !.info_ok = @ \/ r.err = "none"]
                      /\ UNCHANGED waiting
    /\ UNCHANGED <<call, res, procs>>

\* the executor answers a suspended get_info, which runs to its end; the
\* outcome tells whether an earlier get_info had succeeded when the call began
SingleGetInfoResume ==
    /\ obj.class = "single"
    /\ \E i \in DOMAIN waiting, yt \in YtAnswers :
          LET w == waiting[i]
              r == single_get_info_resume(obj, w, yt)
          IN  /\ obj' = r.obj
              /\ out' = [Outcome("get_info", r, w.env, yt)
                           EXCEPT !.info_ok_before = w.info_ok_before]
              /\ hist' = [hist EXCEPT !.info_ok = @ \/ r.err = "none"]
              /\ waiting' = SubSeq(waiting, 1, i - 1)
                                \o SubSeq(waiting, i + 1, Len(waiting))
    /\ UNCHANGED <<call, res, procs>>

LongGetInfo ==
    /\ obj.class = "long"
    /\ \E env \in LongInfoEnvs, yt \in YtAnswers :
          LET r == long_get_info(obj, env, yt)
          IN  /\ obj' = r.obj
              /\ out' = Outcome("get_info", r, env, yt)
              /\ hist' = [hist EXCEPT !.info_ok = @ \/ r.err = "none"]
    /\ UNCHANGED <<call, res, procs, waiting>>

\* MCLongSource.set_connect_data called with a release and one of its tracks
LongSetConnectData ==
    /\ obj.class = "long"
    /\ \E data \in {ReleaseMix, ReleaseSingle}, track \in {TheTrack, TrackNoAlbum} :
          LET r == long_set_connect_data(obj, data, track)
          IN  /\ obj' = r.obj
              /\ out' = Outcome("set_connect_data", r, <<>>, NoOutcome.yt)
    /\ UNCHANGED <<call, res, procs, hist, waiting>>

\* MCLongSource.set_yt_data called with a media lookup's result
SetYtData ==
    /\ obj.class = "long"
    /\ \E data \in YtVideos :
          LET r == long_set_yt_data(obj, data)
          IN  /\ obj' = r.obj
              /\ out' = Outcome("set_yt_data", r, <<>>, [raised |-> FALSE, data |-> data])
    /\ UNCHANGED <<call, res, procs, hist, waiting>>

Load ==
    /\ obj # NoObject
    /\ Len(procs) < MaxLoads
    /\ \E spawned \in BOOLEAN :
          LET r == load(obj, procs, spawned)
          IN  /\ obj' = r.obj
              /\ procs' = r.procs
              /\ out' = HandleOutcome("load", r)
              /\ hist' = [hist EXCEPT !.loaded = @ \/ r.err = "none"]
    /\ UNCHANGED <<call, res, waiting>>

Read ==
    /\ obj # NoObject
    /\ LET r == read(obj, procs)
       IN  /\ obj' = r.obj
           /\ procs' = r.procs
           /\ out' = HandleOutcome("read", r)
    /\ UNCHANGED <<call, res, hist, waiting>>

Cleanup ==
    /\ obj # NoObject
    /\ \E raised \in BOOLEAN :
          LET r == cleanup(obj, procs, raised)
          IN  /\ obj' = r.obj
              /\ procs' = r.procs
              /\ out' = HandleOutcome("cleanup", r)
    /\ UNCHANGED <<call, res, hist, waiting>>

Init ==
    /\ call = NoCall
    /\ res = NoResult
    /\ obj = NoObject
    /\ procs = <<>>
    /\ out = NoOutcome
    /\ hist = NoHistory
    /\ waiting = <<>>

Next ==
    \/ NewSingle
    \/ NewLong
    \/ SingleSetConnectData
    \/ SingleGetInfo
    \/ SingleGetInfoResume
    \/ LongGetInfo
    \/ LongSetConnectData
    \/ SetYtData
    \/ Load
    \/ Read
    \/ Cleanup

Spec == Init /\ [][Next]_vars

----------------------------------------------------------------------------
(* modules/monstercat.py: the play command.  Its outcome is the exception   *)
(* that left it, what it did in order (events) and the state of the voice   *)
(* connection it opened: "none" (never opened), "open", "closed".           *)

PlayEnd(e, events, voice) == [err |-> e, events |-> events, voice |-> voice]

\* play from `source = MCSingleSource(...)` on: nothing below is guarded by
\* try/finally.  connected, sent: whether channel.connect() and ctx.send(embed=)
\* returned; after is only handed to chan.play, as the last statement
play_source(suffix, data, tracks, env, yt, connected, sent, spawned) ==
    LET s == single_init(suffix, data, tracks)
        g == single_get_info(s.obj, env, yt)
        l == load(g.obj, <<>>, spawned)
    IN  IF s.err # "none" THEN PlayEnd(s.err, <<"get_release">>, "none")
        ELSE IF ~connected
             THEN PlayEnd("ClientException", <<"get_release", "connect">>, "none")
        ELSE IF g.err # "none"
             THEN PlayEnd(g.err, <<"get_release", "connect", "get_info">>, "open")
        ELSE IF ~sent
             THEN PlayEnd("HTTPException",
                          <<"get_release", "connect", "get_info", "send">>, "open")
        ELSE IF l.err # "none"
             THEN PlayEnd(l.err,
                          <<"get_release", "connect", "get_info", "send", "load">>, "open")
        ELSE PlayEnd("none", <<"get_release", "connect", "get_info", "send", "load",
                               "play">>, "open")

\* play, were it to join the voice channel before the catalog lookup
play_connect_first(suffix, in_voice, env, env2, yt, connected, sent, spawned) ==
    IF suffix = <<>> THEN PlayEnd("none", <<"send">>, "none")
    ELSE IF ~in_voice THEN PlayEnd("none", <<"send">>, "none")
    ELSE LET r == get_release(suffix, env)
         IN  IF r.err # "none"
             THEN PlayEnd("none", <<"connect", "get_release", "send">>, "open")
             ELSE play_source(suffix, r.value.data, r.value.list, env2, yt,
                              connected, sent, spawned)

\* Monstercat.play: the two early returns, then get_release under
\* `except Exception`, whose handler sends str(e) and returns
play(suffix, in_voice, env, env2, yt, connected, sent, spawned) ==
    IF suffix = <<>> THEN PlayEnd("none", <<"send">>, "none")
    ELSE IF ~in_voice THEN PlayEnd("none", <<"send">>, "none")
    ELSE LET r == get_release(suffix, env)
         IN  IF r.err # "none" THEN PlayEnd("none", <<"get_release", "send">>, "none")
             ELSE play_source(suffix, r.value.data, r.value.list, env2, yt,
                              connected, sent, spawned)

PlayCalls ==
    [op : {"play"}, suffix : Queries, in_voice : BOOLEAN, env : InfoEnvs,
     env2 : InfoEnvs, yt : YtAnswers, connected : BOOLEAN, sent : BOOLEAN,
     spawned : BOOLEAN]

Play ==
    /\ Pending("play")
    /\ res' = play(call.suffix, call.in_voice, call.env, call.env2, call.yt,
                   call.connected, call.sent, call.spawned)
    /\ UNCHANGED <<call, obj, procs, out, hist, waiting>>

InitPlay ==
    /\ call \in PlayCalls
    /\ res = NoResult
    /\ obj = NoObject
    /\ procs = <<>>
    /\ out = NoOutcome
    /\ hist = NoHistory
    /\ waiting = <<>>

NextPlay == Play

SpecPlay == InitPlay /\ [][NextPlay]_vars

\* The catalog lookup of play raises in is_catalog_id for every non-empty
\* query, and play swallows it: the command never gets as far as connecting.
PlayNeverConnects ==
    (call.op = "play" /\ res # NoResult) =>
        /\ res.voice = "none"
        /\ \A i \in DOMAIN res.events : res.events[i] \notin {"connect", "play"}

----------------------------------------------------------------------------
(* The pure helpers, one call at a time: the duration codec and the two     *)
(* classifiers.  A codec call is [op, seconds, dur]; seconds is the number  *)
(* a text was generated from, -1 for a text given from outside.  A          *)
(* classifier call is [op, arg].                                            *)

MaxDurLen == 6
DurAlphabet == {"0", "5", ":", "\n", " "}

\* the seconds of the codec's range, 0 .. 99:59:59
SecondsRange == 0..(100 * 60 * 60 - 1)

DurationTexts ==
    UNION {[1..n -> DurAlphabet] : n \in 0..MaxDurLen}
    \cup {<<"0","1",":","0","2",":","0","3">>, <<"0","1",":","0","2",":","0","3","\n">>,
          <<"1","2",":","3","4","\n">>, <<"1","2",":","3","4","x">>,
          <<"1",":","0","2",":","0","3">>, <<"0","1",":","0","2",":","0","3",":","0","4">>}

HelperCall(op, seconds, dur) == [op |-> op, seconds |-> seconds, dur |-> dur]

ClassifierCall(op, arg) == [op |-> op, arg |-> arg]

CatalogPrefixes ==
    {CATALOG_REGEXES[i].pat : i \in DOMAIN CATALOG_REGEXES}

\* every prefix of the table, as written and in lower case, before one to four
\* digits; and strings that are no identifier
CatalogStrings ==
    LET prefixes == {a.prefix : a \in UNION CatalogPrefixes}
        digits == UNION {[1..n -> {"0", "2"}] : n \in 1..4}
    IN  {p \o d : p \in prefixes \cup {lower(q) : q \in prefixes}, d \in digits}
        \cup {<<"M","C","0","2","5">>, <<"M","C","E","P","0","1","4">>,
              <<"n","o","t","-","a","n","-","i","d">>, <<>>,
              <<"M","C","0","2","5","\n">>}

UrlHosts ==
    {a.host : a \in UNION {URL_REGEXES[i].pat : i \in DOMAIN URL_REGEXES}}
    \cup {"example.com", "prf.hn"}

NameUrls ==
    {Url(sc, pre, h, "/x") : sc \in OptScheme \cup {"ftp://"},
                            pre \in {"", "www.", "m.", "m?"}, h \in UrlHosts}
    \cup {PrfUrl(sc, c, <<"p", "1">>, d) :
             sc \in OptScheme, c \in {<<"c", "1">>, <<"C">>},
             d \in {<<"h","t","t","p","s","%","3","A","%","2","F","%","2","F","a",".","b">>,
                    <<"a"," ","b">>, <<"a"," ","b","\n">>, <<"%","C","3","%","A","9">>,
                    <<>>}}

GenDuration ==
    /\ Pending("gen_duration")
    /\ res' = Return(gen_duration(call.seconds), <<>>)
    /\ UNCHANGED <<call, obj, procs, out, hist, waiting>>

\* parse_duration of a text given from outside, or of the text gen_duration
\* has just produced
ParseDuration ==
    /\ \E dur \in IF Pending("parse_duration") THEN {call.dur}
                  ELSE IF call.op = "gen_duration" /\ res # NoResult THEN {res.value}
                  ELSE {} :
          /\ call' = HelperCall("parse_duration", call.seconds, dur)
          /\ res' = parse_duration(dur)
    /\ UNCHANGED <<obj, procs, out, hist, waiting>>

GetTypeFromCatalogId ==
    /\ Pending("get_type_from_catalog_id")
    /\ res' = get_type_from_catalog_id(call.arg)
    /\ UNCHANGED <<call, obj, procs, out, hist, waiting>>

GetName ==
    /\ Pending("get_name")
    /\ res' = get_name(call.arg)
    /\ UNCHANGED <<call, obj, procs, out, hist, waiting>>

InitHelpers ==
    /\ \/ \E n \in SecondsRange : call = HelperCall("gen_duration", n, <<>>)
       \/ \E t \in DurationTexts : call = HelperCall("parse_duration", -1, t)
       \/ \E id \in CatalogStrings :
             call = ClassifierCall("get_type_from_catalog_id", id)
       \/ \E u \in NameUrls : call = ClassifierCall("get_name", u)
    /\ res = NoResult
    /\ obj = NoObject
    /\ procs = <<>>
    /\ out = NoOutcome
    /\ hist = NoHistory
    /\ waiting = <<>>

NextHelpers ==
    \/ GenDuration
    \/ ParseDuration
    \/ GetTypeFromCatalogId
    \/ GetName

SpecHelpers == InitHelpers /\ [][NextHelpers]_vars

----------------------------------------------------------------------------
(* Claims about the catalog resolver.                                      *)

Done(op) == call.op = op /\ res # NoResult

\* section 4.1: a string classifies as a catalog identifier when a pattern of
\* the table matches it
IsCatalogIdentifier(s) == matching_keys(CATALOG_REGEXES, s) # <<>>

IsSearch(r) == r.fields # <<>>
LastReq == res.reqs[Len(res.reqs)]
Answer(i) == call.env[i]
HasErrorBody(r) == r.status # 0 /\ "error" \in DOMAIN r.body
CallFailed(r) == ~Ok2xx(r.status) \/ "error" \in DOMAIN r.body

\* the last request issued was the dependent collection fetch, and it failed
CollectionCallFailed ==
    /\ res.reqs # <<>>
    /\ LastReq.tail \in {"/tracks", "/releases"}
    /\ CallFailed(Answer(Len(res.reqs)))

\* C5: in get_release and get_artist, when the primary lookup succeeded and the
\* dependent collection fetch fails, the operation ends in an error and returns
\* nothing (no primary record alone).
C5_NoPartialResult ==
    (res # NoResult /\ call.op \in {"get_release", "get_artist"} /\ CollectionCallFailed)
        => (res.err # "none" /\ res.value = NoData)

C5_Witness ==
    /\ Done("get_artist")
    /\ CollectionCallFailed
    /\ Len(res.reqs) = 2
    /\ res.err = "RemoteError"

\* C6: get_release on a non-empty query issues the direct fetch of the
\* upper-cased query exactly when that classifies as a catalog identifier and
\* the fuzzy search otherwise; a successful call issued exactly two requests,
\* the second being the track-list fetch of the returned release's id.
C6_Claim ==
    (Done("get_release") /\ call.q # <<>>) =>
        /\ res.reqs # <<>>
        /\ IF IsCatalogIdentifier(upper(call.q))
           THEN res.reqs[1] = Get("/catalog/release/", upper(call.q), "")
           ELSE IsSearch(res.reqs[1]) /\ res.reqs[1].path = "/catalog/release"
        /\ res.err = "none" =>
              /\ Len(res.reqs) = 2
              /\ res.reqs[2] = Get("/catalog/release/", res.value.data._id, "/tracks")

\* C7: every resolver operation called with an empty query fails with
\* ValidationError, having issued no request.
C7_Claim ==
    (res # NoResult /\ call.q = <<>>) =>
        (res.err = "ValidationError" /\ res.reqs = <<>>)

\* C8: get_release fails with NotFoundError when the lookup by identifier is
\* answered 404 or the fuzzy search has zero results, and with RemoteError
\* carrying the status on any other non-2xx answer.
C8_Claim ==
    (Done("get_release") /\ call.q # <<>>) =>
        LET first == Answer(1)
            isId == IsCatalogIdentifier(upper(call.q))
        IN  /\ (isId /\ first.status = 404) => res.err = "NotFoundError"
            /\ (/\ ~isId
                /\ Ok2xx(first.status)
                /\ "results" \in DOMAIN first.body
                /\ first.body.results = <<>>) => res.err = "NotFoundError"
            /\ (/\ first.status # 0
                /\ ~Ok2xx(first.status)
                /\ ~(isId /\ first.status = 404))
                    => (res.err = "RemoteError" /\ res.status = first.status)

\* the direct artist lookup was answered with the body-level 'Artist not found.'
DirectLookupNotFound ==
    /\ Ok2xx(Answer(1).status)
    /\ "error" \in DOMAIN Answer(1).body
    /\ "message" \in DOMAIN Answer(1).body
    /\ Answer(1).body.message = NOT_FOUND_ARTIST

\* C9: whenever a request of a resolver operation was answered with a body
\* holding an `error` field, the operation fails: with the generic not-found
\* error for the known not-found message, with the body's message otherwise;
\* and the body is not what the operation returns.  (The direct artist lookup
\* answered 'Artist not found.' is C10's fallback and is left out.)
C9_Claim ==
    res # NoResult =>
        \A i \in DOMAIN res.reqs :
            LET b == Answer(i).body
            IN  (/\ HasErrorBody(Answer(i))
                 /\ "message" \in DOMAIN b
                 /\ ~(call.op = "get_artist" /\ i = 1 /\ DirectLookupNotFound))
                => /\ res.err # "none"
                   /\ res.value = NoData
                   /\ b.message = NOT_FOUND_RELEASE => res.err = "NotFoundError"
                   /\ b.message # NOT_FOUND_RELEASE =>
                         (res.err = "ServiceError" /\ res.msg = b.message)

\* the direct artist lookup reported not-found (sections 4.4 and 6): it was
\* answered 404, or with a body whose error message is the not-found message
DirectLookupReportedNotFound ==
    \/ Answer(1).status = 404
    \/ /\ HasErrorBody(Answer(1))
       /\ "message" \in DOMAIN Answer(1).body
       /\ Answer(1).body.message = NOT_FOUND_ARTIST

\* get_artist went on to the fuzzy search
SearchIssued == Len(res.reqs) >= 2 /\ IsSearch(res.reqs[2])

\* the artist record get_artist resolved, when it resolved one: the top result
\* of the search, or the record the direct lookup gave
ResolvedArtist ==
    IF SearchIssued THEN Answer(2).body.results[1] ELSE Answer(1).body

\* C10: get_artist first issues the direct lookup by the normalized slug; the
\* fuzzy search is issued, as second request, if and only if the direct lookup
\* reported not-found; an empty search result is NotFoundError; the releases
\* fetch comes last and is for the vanity identifier of the artist resolved
\* (the direct record, or the top search result).
C10_ArtistLookupOrder ==
    Done("get_artist") =>
        /\ res.reqs # <<>>
        /\ res.reqs[1].path = "/catalog/artist/"
        /\ res.reqs[1].tail = ""
        /\ ~IsSearch(res.reqs[1])
        /\ call.q \in {<<"A"," ","&"," ","B">>, <<"a"," ","b">>}
              => res.reqs[1].arg = <<"a","-","b">>
        /\ \A i \in DOMAIN res.reqs : IsSearch(res.reqs[i]) => i = 2
        /\ SearchIssued <=> DirectLookupReportedNotFound
        /\ (/\ SearchIssued
            /\ Ok2xx(Answer(2).status)
            /\ "results" \in DOMAIN Answer(2).body
            /\ Answer(2).body.results = <<>>) => res.err = "NotFoundError"
        /\ \A i \in DOMAIN res.reqs :
              res.reqs[i].tail = "/releases" =>
                 /\ i = Len(res.reqs)
                 /\ i = IF SearchIssued THEN 3 ELSE 2
                 /\ res.reqs[i].arg = ResolvedArtist.vanityUri

----------------------------------------------------------------------------
(* Claims about the streaming sources.                                     *)

\* a release of a type the single source refuses: multi-track or long-form
WrongType(d) == "type" \in DOMAIN d /\ d.type \in MULTI_TYPES \cup LONG_TYPES

\* the last call was a get_info of a single source over such a release: the
\* release was handed in at construction, or it is what the catalog service
\* answers for the source's catalog identifier
OverWrongType ==
    /\ out.op = "get_info"
    /\ obj.class = "single"
    /\ \/ "_data" \in DOMAIN obj /\ WrongType(obj._data)
       \/ /\ ~obj._has_connect_data
          /\ IsCatalogIdentifier(upper(obj.track))
          /\ Ok2xx(out.env[1].status)
          /\ WrongType(out.env[1].body)

\* C1: get_info of a SingleSource over a multi-track or long-form release
\* fails with WrongSourceTypeError, whether the release was fetched by get_info
\* or supplied at construction.
C1_Claim == OverWrongType => out.err = "WrongSourceTypeError"

\* C3: cleanup on a source that load never bound a decoder to raises nothing.
C3_Claim == (out.op = "cleanup" /\ ~hist.loaded) => out.err = "none"

\* C4: get_info of a SingleSource constructed with catalog data issues no
\* catalog request, and a get_info after an earlier successful get_info
\* returns having issued no catalog request and no media lookup.
C4_GetInfoIdempotent ==
    out.op = "get_info" =>
        /\ (obj.class = "single" /\ hist.prefetched) => out.reqs = <<>>
        /\ out.info_ok_before =>
              (out.err = "none" /\ out.reqs = <<>> /\ out.lookups = <<>>)

C4_Witness ==
    /\ out.op = "get_info"
    /\ out.info_ok_before
    /\ out.before.op = "get_info"
    /\ hist.prefetched
    /\ out.err = "none"
    /\ "url" \in DOMAIN obj
\* what the url classifier's table recognizes a url as: the first platform, in
\* table order, whose pattern matches
ClassifiedAs(u, name) ==
    LET m == matching_platforms(URL_REGEXES, u)
    IN  m # <<>> /\ Head(m) = name

SingleInfoCall == out.op = "get_info" /\ obj.class = "single"

\* C13: a single source's get_info issues the media lookup only when no url of
\* the release's url collection is recognized as YouTube by the url classifier,
\* and when it issued none the locator it ends with is such a url.
C13_Claim ==
    /\ (SingleInfoCall /\ out.lookups # <<>> /\ "_data" \in DOMAIN obj
            /\ obj._data # NoData)
        => \A i \in DOMAIN obj._data.urls : ~ClassifiedAs(obj._data.urls[i], "YouTube")
    /\ (SingleInfoCall /\ out.err = "none" /\ out.lookups = <<>>)
        => ClassifiedAs(obj.url, "YouTube")

LongInfoCall == out.op = "get_info" /\ obj.class = "long"

\* every remote call of the operation was answered with success
AllSucceeded ==
    /\ \A i \in DOMAIN out.env :
          Ok2xx(out.env[i].status) /\ "error" \notin DOMAIN out.env[i].body
    /\ ~out.yt.raised
    /\ "entries" \in DOMAIN out.yt.data => out.yt.data.entries # <<>>

\* C14: a long source built without catalog data whose get_info has every
\* remote call succeed asks for the track, then the release, then looks the
\* media up, and ends with catalog data, locator and segment list in place.
C14_Claim ==
    (LongInfoCall /\ out.before.op = "__init__" /\ AllSucceeded)
        => /\ out.err = "none"
           /\ Len(out.reqs) = 2
           /\ Len(out.lookups) = 1
           /\ obj._has_connect_data
           /\ obj._has_yt_data
           /\ "url" \in DOMAIN obj
           /\ "tracks" \in DOMAIN obj

SegmentCall == out.op = "set_yt_data" /\ "description" \in DOMAIN out.yt.data

\* the text's timestamp-prefixed lines, with the seconds their stamps denote
StampedLines ==
    LET found == tracklist_findall(out.yt.data.description)
    IN  [i \in DOMAIN found |->
            [at |-> parse_duration(found[i].stamp).value, label |-> found[i].label]]

\* C15: the segmenter yields one segment per timestamp-prefixed line, in
\* order of the text and with the line's label; a segment lasts until the next
\* line's timestamp and the last one has no end (00:00, 03:15, 07:40 give
\* 195, 265 and a terminal segment).
C15_Claim ==
    (SegmentCall /\ StampedLines # <<>> /\ "webpage_url" \in DOMAIN out.yt.data)
        => /\ out.err = "none"
           /\ Len(obj.tracks) = Len(StampedLines)
           /\ \A i \in DOMAIN StampedLines :
                 /\ obj.tracks[i].label = StampedLines[i].label
                 /\ IF i < Len(StampedLines)
                    THEN obj.tracks[i].duration
                            = StampedLines[i + 1].at - StampedLines[i].at
                    ELSE obj.tracks[i].terminal

\* C16: a description without any line of the tracklist format gives an empty
\* segment list, raises nothing, and leaves the source media-resolved.
C16_Claim ==
    (SegmentCall /\ StampedLines = <<>> /\ "webpage_url" \in DOMAIN out.yt.data)
        => /\ out.err = "none"
           /\ obj.tracks = <<>>
           /\ obj._has_yt_data
           /\ "url" \in DOMAIN obj

Decoded == call.op = "parse_duration" /\ res # NoResult

\* C17: for every integer s with 0 <= s < 360000, decoding the text that
\* encodes s gives s back: parse_duration(gen_duration(s)) = s.
C17_RoundTrip ==
    (Decoded /\ call.seconds \in SecondsRange)
        => res.err = "none" /\ res.value = call.seconds

\* the largest s, 99:59:59, has been encoded with its hours and decoded
C17_Witness ==
    /\ Decoded
    /\ call.seconds = 100 * 60 * 60 - 1
    /\ call.dur = <<"9","9",":","5","9",":","5","9">>
    /\ res.err = "none"
    /\ res.value = call.seconds

\* exactly DD:DD or DD:DD:DD: two or three groups of two digits between colons
ExactForm(s) ==
    LET g == split(s, ":")
    IN  /\ Len(g) \in {2, 3}
        /\ \A i \in DOMAIN g : Len(g[i]) = 2 /\ \A k \in 1..2 : g[i][k] \in Digit

\* C18: a string that is not exactly of the form DD:DD or DD:DD:DD (nothing
\* before or after it, no trailing newline either) makes decode fail with the
\* format error; it yields no number.
C18_Claim ==
    (Decoded /\ call.seconds = -1 /\ ~ExactForm(call.dur))
        => res.err = "FormatError"

\* C19: the catalog identifier classifier is total: for every string it returns
\* the class of the first entry of the table, in table order, whose pattern
\* matches the upper-cased string, or None when none matches, and never raises
\* (MC025 is Album, MCEP014 is Extended Play, not-an-id is None).
C19_Claim ==
    (call.op = "get_type_from_catalog_id" /\ res # NoResult)
        => /\ res.err = "none"
           /\ LET m == matching_keys(CATALOG_REGEXES, upper(call.arg))
              IN  res.value = IF m # <<>> THEN m[1] ELSE "None"

\* C20: get_name returns the name of the first platform, in table order, whose
\* pattern matches the url; else, for a prf.hn link, the percent-decoded
\* destination; else the url unchanged.
C20_Claim ==
    (call.op = "get_name" /\ res # NoResult)
        => /\ res.err = "none"
           /\ LET m == matching_platforms(URL_REGEXES, call.arg)
              IN  IF m # <<>> THEN res.value = m[1]
                  ELSE IF performance_horizon_search(call.arg)
                       THEN res.value = unquote(call.arg.dest)
                  ELSE res.value = call.arg

\* C21: get_monstercat_track with a non-empty query whose search is answered
\* with success returns the first result when multi is false and the whole
\* result list when multi is true; an empty result list is NotFoundError.
C21_Claim ==
    (/\ Done("get_monstercat_track")
     /\ call.q # <<>>
     /\ Ok2xx(Answer(1).status)
     /\ "results" \in DOMAIN Answer(1).body)
        => IF Answer(1).body.results = <<>> THEN res.err = "NotFoundError"
           ELSE /\ res.err = "none"
                /\ res.value = IF call.multi THEN Answer(1).body.results
                               ELSE Answer(1).body.results[1]

\* the catalog service holds ReleaseSingle: what it answers to the lookup by
\* identifier, and to the search by title
HeldById == <<Resp(200, ReleaseSingle), Resp(200, Results(<<TheTrack>>))>>
HeldByTitle ==
    <<Resp(200, Results(<<ReleaseSingle, ReleaseAlbum>>)), Resp(200, Results(<<TheTrack>>))>>
TitleOfHeld == <<"T","i","t","l","e">>

\* C22: for a release the catalog holds, get_release by its catalog identifier
\* and get_release by its title return release records with the same id.
C22_Claim ==
    (Done("get_release") /\ call.q = ReleaseSingle.catalogId /\ call.env = HeldById)
        => /\ res.err = "none"
           /\ LET byTitle == get_release(TitleOfHeld, HeldByTitle)
              IN  /\ byTitle.err = "none"
                  /\ byTitle.value.data._id = res.value.data._id

\* MediaResolved: the media locator is set (and, for a long source, the
\* description has been segmented)
MediaResolved ==
    IF obj.class = "long" THEN obj._has_yt_data ELSE "url" \in DOMAIN obj

\* C23: a source only advances along Uninitialized, CatalogResolved,
\* MediaResolved, Loaded, Reading, Cleaned: in every reachable state a set media
\* locator implies that catalog data is present, and an audio handle is bound
\* only on a source that has reached MediaResolved.
C23_Claim ==
    obj # NoObject =>
        /\ "url" \in DOMAIN obj => obj._has_connect_data
        /\ "source" \in DOMAIN obj => MediaResolved

\* C24: in every reachable state of either source, a set _has_connect_data
\* means that the fields later stages read are set: stream locator, title,
\* artists and duration.
C24_Claim ==
    (obj # NoObject /\ obj._has_connect_data)
        => {"stream_url", "title", "artists", "duration"} \subseteq DOMAIN obj

PlayDone == call.op = "play" /\ res # NoResult

\* the command got as far as the catalog lookup, and the lookup failed
LookupFailed ==
    /\ call.suffix # <<>>
    /\ call.in_voice
    /\ get_release(call.suffix, call.env).err # "none"

\* C25: play opens the voice connection only after get_release has succeeded
\* (a failed lookup never opens one), and starts playback only after get_info
\* and then load have completed on the source.
C25_PlayOrder ==
    PlayDone =>
        /\ \A i \in DOMAIN res.events :
              res.events[i] = "connect"
                 => /\ ~LookupFailed
                    /\ \E j \in 1..(i - 1) : res.events[j] = "get_release"
        /\ LookupFailed => res.voice = "none"
        /\ \A k \in DOMAIN res.events :
              res.events[k] = "play"
                 => \E i \in 1..(k - 1), j \in 1..(k - 1) :
                       /\ i < j
                       /\ res.events[i] = "get_info"
                       /\ res.events[j] = "load"

\* a catalog lookup has failed, and the command ended without a connection
C25_Witness ==
    /\ PlayDone
    /\ LookupFailed
    /\ res.events = <<"get_release", "send">>
    /\ res.voice = "none"

====
